---- MODULE Spec2Model ----
(***************************************************************************)
(* A model of the parquet regression tool: the per-pair comparison         *)
(* pipeline of ParquetComparator.run (schema diff, table load, ignore      *)
(* rules, projection on the common columns, key inference, content         *)
(* checksum, precise key-join diff, fuzzy record-linkage diff, status).    *)
(*                                                                         *)
(* A table is [cols, rows]: cols is the ordered list of [name, type]       *)
(* fields, rows the list of rows, each a tuple of cells aligned with cols. *)
(* A cell is an integer.  Null is the missing value.  A cell of a string   *)
(* column is the index of its string in StrTab (which is sorted, so the    *)
(* order of the indices is the order of the strings); a cell of a double   *)
(* column is the value in units of 1e-7.                                   *)
(***************************************************************************)
EXTENDS Integers, Sequences, FiniteSets, TLC

\* The missing value (polars null, pandas None / NaN).
Null == 0

\* The strings that occur in the tables of the model, in ascending order.
StrTab ==
  << "3-Port USB Hub", "3-Port USB Hubb", "A", "A-1", "Apple", "B", "B-2",
     "Banana", "C", "C-3", "CUST-ABC", "CUST-XYZ", "Cherry", "DELIVERED",
     "Date", "RETURNED", "SHIPPED", "Wireless Mouse", "a", "b", "dev-001",
     "dev-002" >>

Str(s) == CHOOSE i \in DOMAIN StrTab : StrTab[i] = s

\* jellyfish.jaro_winkler_similarity on StrTab x StrTab, in thousandths
\* (rounded down).
JaroWinklerTable ==
  << <<1000,  986,    0,  468,    0,    0,  468,    0,    0,  436,  511,  418,  412,    0,  440,  398,  404,  476,    0,    0,  404,  404>>,
     << 986, 1000,    0,  466,    0,    0,  466,    0,    0,  433,  505,  413,  411,    0,  438,  397,  403,  471,    0,    0,  403,  403>>,
     <<   0,    0, 1000,  800,  760,    0,    0,    0,    0,    0,    0,    0,    0,    0,    0,    0,    0,    0,    0,    0,    0,    0>>,
     << 468,  466,  800, 1000,  511,    0,  555,    0,    0,  555,  486,  486,    0,    0,    0,    0,    0,    0,    0,    0,  492,  492>>,
     <<   0,    0,  760,  511, 1000,    0,    0,    0,    0,    0,    0,    0,  455,    0,  483,    0,    0,  347,    0,    0,    0,    0>>,
     <<   0,    0,    0,    0,    0, 1000,  800,  750,    0,    0,    0,    0,    0,    0,    0,    0,    0,    0,    0,    0,    0,    0>>,
     << 468,  466,    0,  555,    0,  800, 1000,  500,    0,  555,  486,  486,    0,    0,    0,    0,    0,    0,    0,    0,  492,  492>>,
     <<   0,    0,    0,    0,    0,  750,  500, 1000,    0,    0,    0,    0,    0,    0,  472,    0,    0,    0,  722,    0,    0,    0>>,
     <<   0,    0,    0,    0,    0,    0,    0,    0, 1000,  800,  737,  737,  750,    0,    0,    0,    0,    0,    0,    0,    0,    0>>,
     << 436,  433,    0,  555,    0,    0,  555,    0,  800, 1000,  638,  638,  500,    0,    0,    0,    0,    0,    0,    0,  492,  492>>,
     << 511,  505,    0,  486,    0,    0,  486,    0,  737,  638, 1000,  850,  430,    0,    0,  333,  422,    0,    0,    0,  422,  422>>,
     << 418,  413,    0,  486,    0,    0,  486,    0,  737,  638,  850, 1000,  430,    0,    0,  333,  422,    0,    0,    0,  422,  422>>,
     << 412,  411,    0,    0,  455,    0,    0,    0,  750,  500,  430,  430, 1000,    0,  472,    0,    0,  325,    0,    0,  436,  436>>,
     <<   0,    0,    0,    0,    0,    0,    0,    0,    0,    0,    0,    0,    0, 1000,  453,  564,  587,    0,    0,    0,    0,    0>>,
     << 440,  438,    0,    0,  483,    0,    0,  472,    0,    0,    0,    0,  472,  453, 1000,    0,    0,  440,  750,    0,  464,  464>>,
     << 398,  397,    0,    0,    0,    0,    0,    0,    0,    0,  333,  333,    0,  564,    0, 1000,  511,    0,    0,    0,    0,    0>>,
     << 404,  403,    0,    0,    0,    0,    0,    0,    0,    0,  422,  422,    0,  587,    0,  511, 1000,    0,    0,    0,    0,    0>>,
     << 476,  471,    0,    0,  347,    0,    0,    0,    0,    0,    0,    0,  325,    0,  440,    0,    0, 1000,    0,    0,  404,  404>>,
     <<   0,    0,    0,    0,    0,    0,    0,  722,    0,    0,    0,    0,    0,    0,  750,    0,    0,    0, 1000,    0,    0,    0>>,
     <<   0,    0,    0,    0,    0,    0,    0,    0,    0,    0,    0,    0,    0,    0,    0,    0,    0,    0,    0, 1000,    0,    0>>,
     << 404,  403,    0,  492,    0,    0,  492,    0,    0,  492,  422,  422,  436,    0,  464,    0,    0,  404,    0,    0, 1000,  942>>,
     << 404,  403,    0,  492,    0,    0,  492,    0,    0,  492,  422,  422,  436,    0,  464,    0,    0,  404,    0,    0,  942, 1000>> >>

(***************************************************************************)
(* Data frames.                                                            *)
(***************************************************************************)
SeqToSet(s) == { s[i] : i \in DOMAIN s }

\* A field of a schema: name, type, and whether it may hold nulls.  A column
\* of a data frame is the same record, always nullable.
Field(n, t) == [name |-> n, type |-> t, nullable |-> TRUE]

\* A field declared not null (a required column of a parquet file).
RequiredField(n, t) == [name |-> n, type |-> t, nullable |-> FALSE]

columns(df) == [j \in DOMAIN df.cols |-> df.cols[j].name]

height(df) == Len(df.rows)

ColIdx(df, c) == CHOOSE j \in DOMAIN df.cols : df.cols[j].name = c

dtype(df, c) == df.cols[ColIdx(df, c)].type

\* df[c]: the cells of column c, in row order.
Series(df, c) == [i \in DOMAIN df.rows |-> df.rows[i][ColIdx(df, c)]]

\* df.select(names): the named columns in the order given.  Selecting no
\* column leaves a frame without rows.
select(df, names) ==
  [cols |-> [j \in DOMAIN names |-> df.cols[ColIdx(df, names[j])]],
   rows |-> IF names = << >> THEN << >>
            ELSE [i \in DOMAIN df.rows |->
                    [j \in DOMAIN names |-> df.rows[i][ColIdx(df, names[j])]]]]

\* df.drop(names): the other columns, in their order.
drop(df, names) ==
  select(df, SelectSeq(columns(df), LAMBDA c : c \notin names))

\* pandas Series.is_unique: no value occurs twice (a null is a value here).
is_unique(vals) ==
  \A i, j \in DOMAIN vals : i # j => vals[i] # vals[j]

\* pandas Series.nunique(): the number of distinct non-null values.
nunique(vals) == Cardinality(SeqToSet(vals) \ {Null})

\* pandas.api.types.is_numeric_dtype
is_numeric_dtype(t) == t \in {"int64", "double", "bool"}

(***************************************************************************)
(* Key inference.  A threshold is the fraction num / den.  run calls       *)
(* infer_sort_keys_pl on the polars frame; inference.py defines the policy *)
(* as infer_sort_keys, which is what is modelled.                          *)
(***************************************************************************)
\* The policy without the preference for a non-numeric perfect key.
infer_sort_keys_first_perfect(df, min_uniqueness_ratio) ==
  LET num_rows == height(df)
      perfect == SelectSeq(columns(df), LAMBDA c : is_unique(Series(df, c)))
      highly_unique ==
        SelectSeq(columns(df),
                  LAMBDA c : nunique(Series(df, c)) * min_uniqueness_ratio.den
                               >= min_uniqueness_ratio.num * num_rows)
  IN  IF num_rows = 0 THEN << >>
      ELSE IF perfect # << >> THEN << perfect[1] >>
      ELSE IF highly_unique # << >> THEN << highly_unique[1] >>
      ELSE << >>

infer_sort_keys(df, min_uniqueness_ratio) ==
  LET num_rows == height(df)
      perfect == SelectSeq(columns(df), LAMBDA c : is_unique(Series(df, c)))
      perfect_non_numeric ==
        SelectSeq(perfect, LAMBDA c : ~is_numeric_dtype(dtype(df, c)))
      highly_unique ==
        SelectSeq(columns(df),
                  LAMBDA c : nunique(Series(df, c)) * min_uniqueness_ratio.den
                               >= min_uniqueness_ratio.num * num_rows)
  IN  IF num_rows = 0 THEN << >>
      ELSE IF perfect_non_numeric # << >> THEN << perfect_non_numeric[1] >>
      ELSE IF perfect # << >> THEN << perfect[1] >>
      ELSE IF highly_unique # << >> THEN << highly_unique[1] >>
      ELSE << >>

(***************************************************************************)
(* Content checksum.  run calls generate_checksum_pl(df, sort_keys) on the *)
(* projected frame; checksum.py defines the canonical form and the hash in *)
(* generate_checksum, which is what is modelled, on the frame and the key  *)
(* that run passes.                                                        *)
(***************************************************************************)
\* Ascending order of cells, nulls last (sort_values na_position="last").
ValLess(x, y) == x # Null /\ (y = Null \/ x < y)

RECURSIVE TupleLess(_, _)
TupleLess(a, b) ==
  IF a = << >> \/ b = << >> THEN FALSE
  ELSE IF ValLess(Head(a), Head(b)) THEN TRUE
  ELSE IF ValLess(Head(b), Head(a)) THEN FALSE
  ELSE TupleLess(Tail(a), Tail(b))

KeyOf(df, row, keys) == [k \in DOMAIN keys |-> row[ColIdx(df, keys[k])]]

\* df.sort_values(by=keys): the rows in ascending order of the key cells
\* alone.  Rows with equal keys keep the order they had in the input (the
\* sort of a short array is an insertion sort): no other column breaks ties.
RECURSIVE SortRows(_, _, _)
SortRows(df, rows, keys) ==
  IF rows = << >> THEN << >>
  ELSE LET n == Len(rows)
           r == rows[n]
           s == SortRows(df, SubSeq(rows, 1, n - 1), keys)
           p == Cardinality({ i \in DOMAIN s :
                   ~TupleLess(KeyOf(df, r, keys), KeyOf(df, s[i], keys)) })
       IN  SubSeq(s, 1, p) \o << r >> \o SubSeq(s, p + 1, Len(s))

sort_values(df, keys) == [df EXCEPT !.rows = SortRows(df, df.rows, keys)]

\* hash_pandas_object(df, index=False) fed to SHA-256: one hash per row, of
\* the row's typed cells, in row order.  The digest is kept as the hashed
\* content itself (no collisions).
hash_pandas_object(df) ==
  [i \in DOMAIN df.rows |->
     [j \in DOMAIN df.cols |-> << df.cols[j].type, df.rows[i][j] >>]]

NoChecksum == [ok |-> FALSE, digest |-> << >>]

generate_checksum(df, sort_keys) ==
  IF sort_keys = << >> THEN NoChecksum
  ELSE [ok |-> TRUE,
        digest |-> hash_pandas_object(sort_values(df, sort_keys))]

(***************************************************************************)
(* Schema differ.  A schema is the list of fields of a file.               *)
(***************************************************************************)
SchemaNames(schema) == { schema[j].name : j \in DOMAIN schema }

SchemaType(schema, n) ==
  schema[CHOOSE j \in DOMAIN schema : schema[j].name = n].type

\* schema.field(name)
SchemaField(schema, n) == schema[CHOOSE j \in DOMAIN schema : schema[j].name = n]

SchemaDiff(ident, added, removed, changes) ==
  [is_identical |-> ident, added_columns |-> added,
   removed_columns |-> removed, type_changes |-> changes]

\* _check_schemas with the two schemas exchanged in the set differences.
_check_schemas_exchanged(schema_before, schema_after) ==
  IF schema_before = schema_after
  THEN SchemaDiff(TRUE, << >>, << >>, << >>)
  ELSE LET names_before == SchemaNames(schema_before)
           names_after  == SchemaNames(schema_after)
       IN  SchemaDiff(FALSE,
             [n \in names_before \ names_after |-> SchemaType(schema_before, n)],
             [n \in names_after \ names_before |-> SchemaType(schema_after, n)],
             << >>)

_check_schemas(schema_before, schema_after) ==
  IF schema_before = schema_after
  THEN SchemaDiff(TRUE, << >>, << >>, << >>)
  ELSE LET names_before == SchemaNames(schema_before)
           names_after  == SchemaNames(schema_after)
           changed == { n \in names_before \cap names_after :
                          SchemaField(schema_before, n)
                            # SchemaField(schema_after, n) }
       IN  SchemaDiff(FALSE,
             [n \in names_after \ names_before |-> SchemaType(schema_after, n)],
             [n \in names_before \ names_after |-> SchemaType(schema_before, n)],
             [n \in changed |-> << SchemaType(schema_before, n),
                                   SchemaType(schema_after, n) >>])

(***************************************************************************)
(* Precise comparator (key-join diff).                                     *)
(***************************************************************************)
EmptyFrame == [cols |-> << >>, rows |-> << >>]

ComparisonData(added, deleted, modified, ident) ==
  [added |-> added, deleted |-> deleted, modified |-> modified,
   is_identical |-> ident]

\* cast(pl.Utf8) of one cell: a string stays, a number becomes its decimal
\* string, which is a string outside StrTab (so a number past Len(StrTab);
\* the string cell "100" is CastUtf8("int64", 100)).
CastUtf8(t, v) ==
  IF v = Null \/ t = "string" THEN v
  ELSE IF t = "double" THEN Len(StrTab) + 2 * v + 1
  ELSE Len(StrTab) + 2 * v

\* with_columns(pl.col(c).cast(pl.Utf8)) for every c of the frame in names.
cast_columns(df, names) ==
  [cols |-> [j \in DOMAIN df.cols |->
               IF df.cols[j].name \in names
               THEN Field(df.cols[j].name, "string") ELSE df.cols[j]],
   rows |-> [i \in DOMAIN df.rows |->
               [j \in DOMAIN df.cols |->
                  IF df.cols[j].name \in names
                  THEN CastUtf8(df.cols[j].type, df.rows[i][j])
                  ELSE df.rows[i][j]]]]

RECURSIVE Flatten(_)
Flatten(ss) == IF ss = << >> THEN << >> ELSE Head(ss) \o Flatten(Tail(ss))

NullRow(df) == [j \in DOMAIN df.cols |-> Null]

HasNull(row) == \E j \in DOMAIN row : row[j] = Null

\* before.join(after, on=keys, how="outer", suffix="_after"): one joined row
\* [l, r] per pair of rows with equal keys (a null key equals nothing), a
\* before row without partner joined to nulls, an after row without partner
\* joined to nulls.  l holds the columns of the before side (keys included),
\* r the "_after" columns (keys included).
outer_join(dfb, dfa, keys) ==
  LET kb(i) == KeyOf(dfb, dfb.rows[i], keys)
      ka(i) == KeyOf(dfa, dfa.rows[i], keys)
      match(i, k) == ~HasNull(kb(i)) /\ kb(i) = ka(k)
      partners(i) == SelectSeq([k \in DOMAIN dfa.rows |-> k],
                               LAMBDA k : match(i, k))
      left(i) == IF partners(i) = << >>
                 THEN << [l |-> dfb.rows[i], r |-> NullRow(dfa)] >>
                 ELSE [x \in DOMAIN partners(i) |->
                         [l |-> dfb.rows[i], r |-> dfa.rows[partners(i)[x]]]]
      lonely == SelectSeq([k \in DOMAIN dfa.rows |-> k],
                          LAMBDA k : \A i \in DOMAIN dfb.rows : ~match(i, k))
  IN  Flatten([i \in DOMAIN dfb.rows |-> left(i)])
        \o [x \in DOMAIN lonely |->
              [l |-> NullRow(dfb), r |-> dfa.rows[lonely[x]]]]

\* The long-form record of one differing cell.
ModifiedRow(key, col, vb, va) ==
  [key |-> key, column |-> col, value_before |-> vb, value_after |-> va]

\* diff_mask with the comparison against the tolerance turned round.
diff_mask_below_tolerance(dfb, dfa, m, c, tolerance, schema_diff) ==
  LET b == m.l[ColIdx(dfb, c)]
      a == m.r[ColIdx(dfa, c)]
  IN  IF dtype(dfb, c) = "double" /\ c \notin DOMAIN schema_diff.type_changes
      THEN (IF b >= a THEN b - a ELSE a - b) < tolerance
      ELSE b # a

\* diff_mask of one common row for column c.
diff_mask(dfb, dfa, m, c, tolerance, schema_diff) ==
  LET b == m.l[ColIdx(dfb, c)]
      a == m.r[ColIdx(dfa, c)]
  IN  IF dtype(dfb, c) = "double" /\ c \notin DOMAIN schema_diff.type_changes
      THEN (IF b >= a THEN b - a ELSE a - b) > tolerance
      ELSE b # a

\* common_cols is the list made of the set of common column names: its
\* order is the iteration order of that set.
compare_dataframes_pl(df_before, df_after, sort_keys, tolerance, schema_diff, common_cols) ==
  LET common_sort_keys ==
        SelectSeq(sort_keys, LAMBDA k : k \in SeqToSet(common_cols))
      changed == DOMAIN schema_diff.type_changes \cap SeqToSet(common_cols)
      dfb == select(cast_columns(df_before, changed), common_cols)
      dfa == select(cast_columns(df_after, changed), common_cols)
      merged == outer_join(dfb, dfa, common_sort_keys)
      non_keys == SelectSeq(common_cols,
                            LAMBDA c : c \notin SeqToSet(common_sort_keys))
      probe == ColIdx(dfb, common_cols[1])
      added_rows == SelectSeq(merged, LAMBDA m : m.l[probe] = Null)
      deleted_rows == SelectSeq(merged, LAMBDA m : m.r[probe] = Null)
      added ==
        [cols |-> [j \in DOMAIN common_sort_keys |->
                     dfb.cols[ColIdx(dfb, common_sort_keys[j])]]
                  \o [j \in DOMAIN non_keys |->
                        dfa.cols[ColIdx(dfa, non_keys[j])]],
         rows |-> [x \in DOMAIN added_rows |->
                     KeyOf(dfb, added_rows[x].l, common_sort_keys)
                     \o KeyOf(dfa, added_rows[x].r, non_keys)]]
      deleted ==
        [cols |-> dfb.cols,
         rows |-> [x \in DOMAIN deleted_rows |-> deleted_rows[x].l]]
      common_rows_df ==
        SelectSeq(merged, LAMBDA m : ~HasNull(m.l) /\ ~HasNull(m.r))
      differences(c) ==
        SelectSeq(common_rows_df,
                  LAMBDA m : diff_mask(dfb, dfa, m, c, tolerance, schema_diff))
      modified_of(c) ==
        [x \in DOMAIN differences(c) |->
           ModifiedRow([kind |-> "key",
                        of |-> KeyOf(dfb, differences(c)[x].l, common_sort_keys)],
                       c,
                       differences(c)[x].l[ColIdx(dfb, c)],
                       differences(c)[x].r[ColIdx(dfa, c)])]
      modified_df == Flatten([j \in DOMAIN non_keys |-> modified_of(non_keys[j])])
  IN  IF common_sort_keys = << >>
      THEN ComparisonData(EmptyFrame, EmptyFrame, << >>,
                          schema_diff.is_identical)
      ELSE ComparisonData(added, deleted, modified_df,
                          /\ height(added) = 0
                          /\ height(deleted) = 0
                          /\ Len(modified_df) = 0
                          /\ schema_diff.is_identical)

(***************************************************************************)
(* Fuzzy comparator (pandas record linkage).  Scores are kept as integer   *)
(* numerators: a weight 1 + nunique/n is kept as n + nunique, a cell       *)
(* similarity in thousandths, so a row score S is                          *)
(* row_score / (1000 * total_weight).                                      *)
(***************************************************************************)
RECURSIVE SumSeq(_)
SumSeq(s) == IF s = << >> THEN 0 ELSE Head(s) + SumSeq(Tail(s))

Indices(rows) == [i \in DOMAIN rows |-> i]

\* max(cols, key=cardinality): the first of the columns whose number of
\* distinct values is largest.
MaxCardinality(df, cols) ==
  LET nu(c) == nunique(Series(df, c))
  IN  cols[CHOOSE i \in DOMAIN cols :
             /\ \A j \in DOMAIN cols : nu(cols[j]) <= nu(cols[i])
             /\ \A j \in 1 .. (i - 1) : nu(cols[j]) < nu(cols[i])]

\* jellyfish.jaro_winkler_similarity of two strings of StrTab (a numeral
\* string, which is outside StrTab, is similar to itself alone).
jaro_winkler_similarity(v1, v2) ==
  IF v1 \in DOMAIN StrTab /\ v2 \in DOMAIN StrTab
  THEN JaroWinklerTable[v1][v2]
  ELSE IF v1 = v2 THEN 1000 ELSE 0

_get_column_weights(df) ==
  IF height(df) = 0 THEN << >>
  ELSE [j \in DOMAIN df.cols |->
          height(df) + nunique(Series(df, df.cols[j].name))]

_calculate_row_similarity(dfb, dfa, row1, row2, weights) ==
  LET score(j) ==
        LET val1 == row1[j]
            val2 == row2[ColIdx(dfa, dfb.cols[j].name)]
            t1 == dfb.cols[j].type
            t2 == dtype(dfa, dfb.cols[j].name)
        IN  IF val1 = Null /\ val2 = Null THEN 1000
            ELSE IF val1 # Null /\ val2 # Null
                 THEN IF t1 = "string" /\ t2 = "string"
                      THEN jaro_winkler_similarity(val1, val2)
                      ELSE IF t1 = t2 /\ val1 = val2 THEN 1000 ELSE 0
                 ELSE 0
  IN  SumSeq([j \in DOMAIN dfb.cols |-> score(j) * weights[j]])

\* The blocking column as a list: << c >>, or << >> for None.
_find_best_blocking_column(df) ==
  LET potential_cols ==
        SelectSeq(columns(df), LAMBDA c : dtype(df, c) \notin {"int64", "double"})
      n == height(df)
      nu(c) == nunique(Series(df, c))
      candidates ==
        SelectSeq(potential_cols, LAMBDA c : 10 * nu(c) > n /\ 100 * nu(c) < 95 * n)
      fallback_candidates ==
        SelectSeq(potential_cols, LAMBDA c : 100 * nu(c) < 99 * n)
  IN  IF potential_cols = << >> \/ n = 0 THEN << >>
      ELSE IF candidates # << >> THEN << MaxCardinality(df, candidates) >>
      ELSE IF fallback_candidates # << >>
           THEN << MaxCardinality(df, fallback_candidates) >>
      ELSE << >>

\* df_after_grouped.get(block_key): the after rows of the group of the
\* before row's blocking value.  groupby leaves the rows with a null
\* blocking value in no group; without a blocking column every row is in
\* the one group.
search_df(dfb, dfa, blocking_col, index_b) ==
  IF blocking_col = << >> THEN Indices(dfa.rows)
  ELSE LET block_key == dfb.rows[index_b][ColIdx(dfb, blocking_col[1])]
       IN  SelectSeq(Indices(dfa.rows),
             LAMBDA a : /\ block_key # Null
                        /\ dfa.rows[a][ColIdx(dfa, blocking_col[1])] = block_key)

\* The values of a row taken out of the frame (iterrows, loc) are Python
\* floats when the column is float64 in pandas (a double column, or an
\* integer column holding a null), or when the row is upcast because every
\* column is numeric and one is float64.
PandasFloat(df, c) ==
  \/ dtype(df, c) = "double"
  \/ dtype(df, c) = "int64" /\ Null \in SeqToSet(Series(df, c))

RowValueIsFloat(df, c) ==
  \/ PandasFloat(df, c)
  \/ /\ dtype(df, c) = "int64"
     /\ \A j \in DOMAIN df.cols : df.cols[j].type \in {"int64", "double"}
     /\ \E j \in DOMAIN df.cols : PandasFloat(df, df.cols[j].name)

Abs(x) == IF x >= 0 THEN x ELSE 0 - x

\* np.isclose(b, a): |b - a| <= 1e-8 + 1e-5 * |a|, false on a NaN.  A double
\* cell is in units of 1e-7.
isclose(t, b, a) ==
  /\ b # Null /\ a # Null
  /\ IF t = "double"
     THEN Abs(b - a) <= (100000 + 10 * Abs(a)) \div 1000000
     ELSE Abs(b - a) <= Abs(a) \div 100000

is_diff(dfb, dfa, c, val_b, val_a) ==
  IF RowValueIsFloat(dfb, c) /\ RowValueIsFloat(dfa, c)
  THEN ~isclose(dtype(dfb, c), val_b, val_a)
  ELSE (val_b # val_a \/ dtype(dfb, c) # dtype(dfa, c))
       /\ ~(val_b = Null /\ val_a = Null)

\* The scores of the candidate after rows against one before row.
Scores(dfb, dfa, row_b, weights, candidates) ==
  [x \in DOMAIN candidates |->
     _calculate_row_similarity(dfb, dfa, row_b, dfa.rows[candidates[x]], weights)]

\* The inner loop: the position of the first candidate whose score is
\* largest (the comparison score > highest_score is strict).
BestMatch(scores) ==
  CHOOSE i \in DOMAIN scores :
    /\ \A j \in DOMAIN scores : scores[j] <= scores[i]
    /\ \A j \in 1 .. (i - 1) : scores[j] < scores[i]

\* The test of the best score against the threshold, without the threshold.
accepts_any_score(highest_score, similarity_threshold, total_weight) == TRUE

\* highest_score >= similarity_threshold, on the numerators.
accepts(highest_score, similarity_threshold, total_weight) ==
  highest_score >= similarity_threshold * total_weight

\* One pass of the loop over the before rows, from row index_b on.  st is
\* [matched_after, matched_before, modified_rows, pairs]; pairs lists, in the
\* order of the loop, [index_b, best_match_index, highest_score] of every
\* before row that took a match.
RECURSIVE FuzzyLoop(_, _, _, _, _, _, _)
FuzzyLoop(dfb, dfa, similarity_threshold, blocking_col, weights, index_b, st) ==
  IF index_b > height(dfb) THEN st
  ELSE
    LET row_b == dfb.rows[index_b]
        total_weight == SumSeq(weights)
        open == SelectSeq(search_df(dfb, dfa, blocking_col, index_b),
                          LAMBDA a : a \notin st.matched_after)
        scores == Scores(dfb, dfa, row_b, weights, open)
        found == open # << >> /\ scores[BestMatch(scores)] > 0
        best == open[BestMatch(scores)]
        highest_score == IF found THEN scores[BestMatch(scores)] ELSE 0
        matched == found /\ accepts(highest_score, similarity_threshold,
                                    total_weight)
        row_a == dfa.rows[best]
        diff_cols ==
          SelectSeq(columns(dfb),
            LAMBDA c : is_diff(dfb, dfa, c, row_b[ColIdx(dfb, c)],
                               row_a[ColIdx(dfa, c)]))
        key == [kind |-> "Fuzzy Match (Score: ",
                of |-> << (2 * highest_score + total_weight)
                            \div (2 * total_weight) >>]
        new_rows ==
          IF highest_score < 1000 * total_weight
          THEN [x \in DOMAIN diff_cols |->
                  ModifiedRow(key, diff_cols[x],
                              row_b[ColIdx(dfb, diff_cols[x])],
                              row_a[ColIdx(dfa, diff_cols[x])])]
          ELSE << >>
        next == IF matched
                THEN [matched_after |-> st.matched_after \cup {best},
                      matched_before |-> st.matched_before \cup {index_b},
                      modified_rows |-> st.modified_rows \o new_rows,
                      pairs |-> Append(st.pairs,
                                       [index_b |-> index_b,
                                        best_match_index |-> best,
                                        highest_score |-> highest_score])]
                ELSE st
    IN  FuzzyLoop(dfb, dfa, similarity_threshold, blocking_col, weights,
                  index_b + 1, next)

\* The loop over all before rows, from the empty sets of matched rows.
fuzzy_matches(df_before, df_after, similarity_threshold) ==
  FuzzyLoop(df_before, df_after, similarity_threshold,
            _find_best_blocking_column(df_before),
            _get_column_weights(df_before), 1,
            [matched_after |-> {}, matched_before |-> {},
             modified_rows |-> << >>, pairs |-> << >>])

fuzzy_compare_dataframes(df_before, df_after, similarity_threshold) ==
  LET st == fuzzy_matches(df_before, df_after, similarity_threshold)
      unmatched_before ==
        SelectSeq(Indices(df_before.rows), LAMBDA i : i \notin st.matched_before)
      unmatched_after ==
        SelectSeq(Indices(df_after.rows), LAMBDA a : a \notin st.matched_after)
      deleted ==
        [cols |-> df_before.cols,
         rows |-> [x \in DOMAIN unmatched_before |->
                     df_before.rows[unmatched_before[x]]]]
      added ==
        [cols |-> df_after.cols,
         rows |-> [x \in DOMAIN unmatched_after |->
                     df_after.rows[unmatched_after[x]]]]
  IN  ComparisonData(added, deleted, st.modified_rows,
                     /\ height(added) = 0
                     /\ height(deleted) = 0
                     /\ Len(st.modified_rows) = 0)

(***************************************************************************)
(* The summary of the report (ReportGenerator._create_summary).            *)
(***************************************************************************)
\* The column names of the model in ascending order (the order of strings).
NamesAscending ==
  << "city", "customer_id", "data", "device_id", "id", "n", "name", "new_col",
     "product_name", "reading", "s", "sensor_id", "status", "stock", "value",
     "voltage" >>

NameRank(c) == CHOOSE i \in DOMAIN NamesAscending : NamesAscending[i] = c

\* self.results.modified.select(pl.col("key")).n_unique()
rows_modified(modified) ==
  Cardinality({ modified[i].key : i \in DOMAIN modified })

\* The group of one column: the number of its modified records.
change_count(modified, c) ==
  Cardinality({ i \in DOMAIN modified : modified[i].column = c })

\* The order of the sort without the count: by ascending column name alone.
sorts_before_by_name(count_d, d, count_c, c) == NameRank(d) < NameRank(c)

\* sort("change_count", "column", descending=[True, False]): d comes before c.
sorts_before(count_d, d, count_c, c) ==
  \/ count_d > count_c
  \/ count_d = count_c /\ NameRank(d) < NameRank(c)

\* head(5)
TopFieldsLimit == 5

\* group_by("column").agg(count).sort(...).head(5).to_dicts()
top_modified_fields(modified) ==
  LET cols == { modified[i].column : i \in DOMAIN modified }
      position(c) ==
        1 + Cardinality({ d \in cols :
                            sorts_before(change_count(modified, d), d,
                                         change_count(modified, c), c) })
      n == IF Cardinality(cols) < TopFieldsLimit THEN Cardinality(cols)
           ELSE TopFieldsLimit
  IN  [k \in 1 .. n |->
         LET c == CHOOSE c \in cols : position(c) = k
         IN  [column |-> c, change_count |-> change_count(modified, c)]]

NoSummary ==
  [status |-> "", rows_added |-> 0, rows_deleted |-> 0, rows_modified |-> 0,
   top_modified_fields |-> << >>]

_create_summary(results, schema_diff, inferred_keys) ==
  [status |->
     IF ~schema_diff.is_identical THEN "SCHEMA_DIFFERENCES_FOUND"
     ELSE IF results.is_identical THEN "IDENTICAL"
     ELSE IF inferred_keys # << >> /\ inferred_keys[1] = "(Fuzzy Match)"
          THEN "FUZZY_DIFFERENCES_FOUND"
          ELSE "DATA_DIFFERENCES_FOUND",
   rows_added |-> height(results.added),
   rows_deleted |-> height(results.deleted),
   rows_modified |-> rows_modified(results.modified),
   top_modified_fields |-> top_modified_fields(results.modified)]

(***************************************************************************)
(* The inputs of one run: two files, the rules, the config, skip_checksum. *)
(* A file is [schema_ok, data_ok, error, table]: whether pq.read_schema    *)
(* and pl.read_parquet succeed on it, the message of the exception raised  *)
(* when they do not, and the table it holds.                               *)
(***************************************************************************)
MaxRows == 2

File(t) == [schema_ok |-> TRUE, data_ok |-> TRUE, error |-> "", table |-> t]

Frame(cols, rows) == [cols |-> cols, rows |-> rows]

Ratio(n, d) == [num |-> n, den |-> d]

\* key_uniqueness_threshold: the default 0.99, and 0.5.
Thresholds == { Ratio(99, 100), Ratio(1, 2) }

\* float_tolerance in units of 1e-7: 0, and the default 1e-6.
Tolerances == { 0, 10 }

\* fuzzy_match_threshold in thousandths: the default 0.8.
FuzzyThresholds == { 800 }

Rules(tol, ignore) == [float_tolerance |-> tol, ignore_columns |-> ignore]

Config(thr, fuzzy) ==
  [key_uniqueness_threshold |-> thr, fuzzy_match_threshold |-> fuzzy]

Input(fb, fa, rules, config, skip) ==
  [file_before |-> fb, file_after |-> fa, rules |-> rules,
   config |-> config, skip_checksum |-> skip]

\* Generated tables: a string column s and a double column n.
GenCols == << Field("s", "string"), Field("n", "double") >>

GenCells(t) == IF t = "string" THEN { Null, Str("A"), Str("B") }
               ELSE { Null, 1, 2 }

\* The rows of the generated before tables: s may be missing, n is not (a
\* changed cell of an after table may be any cell, a missing n too).
GenRows ==
  { << s, n >> : s \in GenCells("string"), n \in GenCells("double") \ {Null} }

GenRowSeqs == UNION { [1 .. k -> GenRows] : k \in 0 .. MaxRows }

Reverse(rows) == [i \in DOMAIN rows |-> rows[Len(rows) + 1 - i]]

RemoveAt(rows, i) == SubSeq(rows, 1, i - 1) \o SubSeq(rows, i + 1, Len(rows))

\* The after tables generated for a before table: the same rows, the rows
\* in reverse order, one cell changed, one row removed, one row appended.
RowVariants(rows) ==
  {rows} \cup {Reverse(rows)}
  \cup UNION { { [rows EXCEPT ![i][j] = v] : v \in GenCells(GenCols[j].type) } :
                 i \in DOMAIN rows, j \in DOMAIN GenCols }
  \cup { RemoveAt(rows, i) : i \in DOMAIN rows }
  \cup (IF Len(rows) < MaxRows THEN { Append(rows, r) : r \in GenRows } ELSE {})

\* The table with one more column, new_col, of type bool (1 is True, 2 is
\* False), as in test case 8 of create_dummy_data.
WithNewCol(t) ==
  Frame(t.cols \o << Field("new_col", "bool") >>,
        [i \in DOMAIN t.rows |-> Append(t.rows[i], 1 + ((i + 1) % 2))])

\* The test cases of create_dummy_data.generate_data that the claims name.
Case01Before ==
  Frame(<< Field("id", "int64"), Field("product_name", "string"),
           Field("stock", "int64") >>,
        << << 1, Str("Apple"), 100 >>, << 2, Str("Banana"), 150 >>,
           << 3, Str("Cherry"), 200 >>, << 4, Str("Date"), 50 >> >>)

Case01After ==
  [Case01Before EXCEPT !.rows =
     << Case01Before.rows[3], Case01Before.rows[1],
        Case01Before.rows[4], Case01Before.rows[2] >>]

Case02Before ==
  Frame(<< Field("sensor_id", "string"), Field("reading", "double") >>,
        << << Str("A-1"), 12345678 >>, << Str("B-2"), 23456789 >>,
           << Str("C-3"), 34567890 >> >>)

Case02After == [Case02Before EXCEPT !.rows[2][2] = @ + 1]

Case08Before ==
  Frame(<< Field("id", "int64"), Field("data", "string") >>,
        << << 1, Str("a") >>, << 2, Str("b") >> >>)

Case08After == WithNewCol(Case08Before)

\* The table with its columns in reverse order (the same named, typed
\* columns and the same cells).
ReverseColumns(t) ==
  Frame(Reverse(t.cols), [i \in DOMAIN t.rows |-> Reverse(t.rows[i])])

\* Test case 9: the column value is int64 before and string after ("100" is
\* the string that the cast of the integer 100 gives).
Case09Before ==
  Frame(<< Field("id", "int64"), Field("value", "int64") >>,
        << << 1, 100 >>, << 2, 200 >> >>)

Case09After ==
  Frame(<< Field("id", "int64"), Field("value", "string") >>,
        << << 1, CastUtf8("int64", 100) >>, << 2, CastUtf8("int64", 200) >> >>)

Case10Before ==
  Frame(<< Field("city", "string"), Field("value", "int64") >>,
        << << Str("A"), 10 >>, << Str("A"), 20 >>, << Str("B"), 10 >>,
           << Str("B"), 30 >>, << Str("C"), 40 >> >>)

Case10After == [Case10Before EXCEPT !.rows[1][2] = 15]

\* The before table of test case 10 with its rows in reverse order.
Case10Reordered == [Case10Before EXCEPT !.rows = Reverse(Case10Before.rows)]

\* A table without a key whose blocking column, city, has a missing value.
MissingCity ==
  Frame(<< Field("city", "string"), Field("value", "int64") >>,
        << << Str("A"), 10 >>, << Str("A"), 10 >>, << Null, 20 >> >>)

\* Test case 11: one voltage moves by 5e-6.
Case11Before ==
  Frame(<< Field("device_id", "string"), Field("voltage", "double") >>,
        << << Str("dev-001"), 33025100 >>, << Str("dev-002"), 49876500 >> >>)

Case11After == [Case11Before EXCEPT !.rows[1][2] = @ + 50]

\* The tolerances of test case 11: the file-specific 1e-7 and the global 1e-5.
Case11Tolerances == { 1, 100 }

\* A table without a key (its first two rows are equal); after, one of the
\* two has a typo in product_name and the third row is another order.
TypoBefore ==
  Frame(<< Field("customer_id", "string"), Field("product_name", "string"),
           Field("status", "string") >>,
        << << Str("CUST-ABC"), Str("3-Port USB Hub"), Str("SHIPPED") >>,
           << Str("CUST-ABC"), Str("3-Port USB Hub"), Str("SHIPPED") >>,
           << Str("CUST-XYZ"), Str("Wireless Mouse"), Str("DELIVERED") >> >>)

TypoAfter ==
  [TypoBefore EXCEPT !.rows[1][2] = Str("3-Port USB Hubb"),
                     !.rows[3] = << Str("CUST-XYZ"), Str("Banana"),
                                    Str("RETURNED") >>]

\* A table without a key in which two rows differ by a typo in product_name;
\* after, the first of the two is gone.
RivalBefore ==
  Frame(<< Field("customer_id", "string"), Field("product_name", "string"),
           Field("status", "string") >>,
        << << Str("CUST-ABC"), Str("3-Port USB Hub"), Str("SHIPPED") >>,
           << Str("CUST-ABC"), Str("3-Port USB Hubb"), Str("SHIPPED") >>,
           << Str("CUST-XYZ"), Str("3-Port USB Hubb"), Str("DELIVERED") >> >>)

RivalAfter == [RivalBefore EXCEPT !.rows = RemoveAt(RivalBefore.rows, 1)]

\* A table without a key (two equal rows); after, the reading of the second
\* row has moved by 1e-7.
DriftBefore ==
  Frame(<< Field("sensor_id", "string"), Field("reading", "double") >>,
        << << Str("A-1"), 12345678 >>, << Str("A-1"), 12345678 >> >>)

DriftAfter == [DriftBefore EXCEPT !.rows[2][2] = @ + 1]

\* Test case 8's before table with its column id declared not null.
RequiredId ==
  Frame(<< RequiredField("id", "int64"), Field("data", "string") >>,
        Case08Before.rows)

\* A key that occurs once before and twice after, one of the two after rows
\* with a missing value.
TwinBefore == Frame(GenCols, << << Str("A"), 1000 >> >>)

TwinAfter == Frame(GenCols, << << Str("A"), Null >>, << Str("A"), 2000 >> >>)

Case12Before ==
  Frame(<< Field("customer_id", "string"), Field("product_name", "string"),
           Field("status", "string") >>,
        << << Str("CUST-ABC"), Str("3-Port USB Hub"), Str("SHIPPED") >>,
           << Str("CUST-ABC"), Str("3-Port USB Hubb"), Str("SHIPPED") >>,
           << Str("CUST-XYZ"), Str("Wireless Mouse"), Str("DELIVERED") >> >>)

Case12After ==
  Frame(Case12Before.cols,
        << << Str("CUST-XYZ"), Str("Wireless Mouse"), Str("DELIVERED") >>,
           << Str("CUST-ABC"), Str("3-Port USB Hub"), Str("SHIPPED") >>,
           << Str("CUST-ABC"), Str("3-Port USB Hubb"), Str("RETURNED") >> >>)

SeedPairs ==
  { << Case01Before, Case01After >>, << Case02Before, Case02After >>,
    << Case08Before, Case08After >>, << Case10Before, Case10After >>,
    << Case10Before, Case10Before >>, << Case10Before, Case10Reordered >>,
    << Case12Before, Case12After >>, << MissingCity, MissingCity >>,
    << Case08Before, ReverseColumns(Case08Before) >>,
    << Case09Before, Case09After >>, << TwinBefore, TwinAfter >>,
    << TypoBefore, TypoAfter >>, << RivalBefore, RivalAfter >>,
    << Case08Before, RequiredId >> }

DefaultRules == Rules(10, {})

\* The generated before table of rows b against each of its after tables,
\* under every rule and config of the model.
GenInputs(b) ==
  { Input(File(Frame(GenCols, b)), File(Frame(GenCols, a)), Rules(tol, {}),
          Config(thr, fz), skip) :
      a \in RowVariants(b), tol \in Tolerances, thr \in Thresholds,
      fz \in FuzzyThresholds, skip \in BOOLEAN }

\* The same pairs with a new column in the after table alone.
NewColInputs(b) ==
  { Input(File(Frame(GenCols, b)), File(WithNewCol(Frame(GenCols, a))),
          Rules(0, {}), Config(Ratio(99, 100), fz), skip) :
      a \in RowVariants(b), fz \in FuzzyThresholds, skip \in BOOLEAN }

\* The same pairs under a rule that ignores the new column, which the after
\* table alone has or which both tables have.
IgnoreInputs(b) ==
  { Input(File(tb), File(WithNewCol(Frame(GenCols, a))),
          Rules(0, {"new_col"}), Config(Ratio(99, 100), fz), skip) :
      tb \in { Frame(GenCols, b), WithNewCol(Frame(GenCols, b)) },
      a \in RowVariants(b), fz \in FuzzyThresholds, skip \in BOOLEAN }

\* The test cases, with the default rules.
SeedInputs ==
  { Input(File(p[1]), File(p[2]), DefaultRules, Config(thr, fz), skip) :
      p \in SeedPairs, thr \in Thresholds, fz \in FuzzyThresholds,
      skip \in BOOLEAN }

\* Test case 11 under its two tolerances.
Case11Inputs ==
  { Input(File(Case11Before), File(Case11After), Rules(tol, {}),
          Config(Ratio(99, 100), fz), skip) :
      tol \in Case11Tolerances, fz \in FuzzyThresholds, skip \in BOOLEAN }

\* The drifting reading under a fuzzy_match_threshold of 0.5.
DriftInputs ==
  { Input(File(DriftBefore), File(DriftAfter), DefaultRules,
          Config(Ratio(99, 100), 500), skip) : skip \in BOOLEAN }

\* Files that cannot be read: not a parquet file at all (neither the schema
\* nor the data can be read), or a file whose footer is read and whose data
\* is not.
Damage == { << TRUE, TRUE >>, << TRUE, FALSE >>, << FALSE, FALSE >> }

Damaged(t, d, side) ==
  [schema_ok |-> d[1], data_ok |-> d[2],
   error |-> IF d[2] THEN "" ELSE "cannot read " \o side, table |-> t]

DamagedInputs ==
  { Input(Damaged(p[1], db, "before"), Damaged(p[2], da, "after"), DefaultRules,
          Config(Ratio(99, 100), fz), skip) :
      p \in SeedPairs, db \in Damage, da \in Damage,
      fz \in FuzzyThresholds, skip \in BOOLEAN }

\* The inputs of the model that start from the before rows b; the test
\* cases and the unreadable files go with the empty table.
Inputs(b) ==
  GenInputs(b) \cup NewColInputs(b) \cup IgnoreInputs(b)
  \cup (IF b = << >> THEN SeedInputs \cup Case11Inputs \cup DriftInputs
                            \cup DamagedInputs
        ELSE {})

(***************************************************************************)
(* The orchestrator, ParquetComparator.run, as a state machine.            *)
(***************************************************************************)
VARIABLES
  file_before, file_after, rules, config, skip_checksum,  \* the inputs
  pc,                  \* the stage reached
  schema_diff,         \* the SchemaDiff of the two file schemas
  df_before, df_after, \* the frames: raw, then projected on common_cols
  common_cols,         \* the list of the common column names
  sort_keys,           \* the inferred key
  hash_before, hash_after,
  checksum_status,     \* "None", "CHECKSUM_MISMATCH", "CHECKSUM_MATCH_BUT_SCHEMA_DIFFERS"
  comparison_results,  \* the ComparisonData
  result,              \* the ComparisonResult
  summary,             \* the summary of the report
  stages,              \* the stages that ran, in order
  comparison_log,      \* the rows of the result log of the driver
  force,               \* the --force flag of the driver run
  all_pairs,           \* the file pairs the driver run found
  tasks_to_run,        \* the pairs the driver run queued
  task,                \* each pair's task: its place in the pool
  outcome,             \* each pair's run: its status, or the exception
  main_pc,             \* the driver's main task: "idle" or "pool"
  runs                 \* the number of driver runs started

inputs == << file_before, file_after, rules, config, skip_checksum >>

driver == << comparison_log, force, all_pairs, tasks_to_run, task, outcome,
            main_pc, runs >>

vars == << file_before, file_after, rules, config, skip_checksum, pc,
           schema_diff, df_before, df_after, common_cols, sort_keys,
           hash_before, hash_after, checksum_status, comparison_results,
           result, summary, stages, comparison_log, force, all_pairs,
           tasks_to_run, task, outcome, main_pc, runs >>

\* The file pairs of the two base directories: (before path, after path).
Pairs ==
  { << "before/a.parquet", "after/a.parquet" >>,
    << "before/b.parquet", "after/b.parquet" >> }

\* The driver before its first run: an empty log, nothing queued.
DriverIdle ==
  /\ comparison_log = {}
  /\ force = FALSE
  /\ all_pairs = {}
  /\ tasks_to_run = {}
  /\ task = [p \in Pairs |-> "none"]
  /\ outcome = [p \in Pairs |-> "None"]
  /\ main_pc = "idle"
  /\ runs = 0

\* pl.read_parquet: the columns and the rows of the file; a column of a data
\* frame keeps the name and the type of its field, not its nullability.
read_parquet(t) ==
  [cols |-> [j \in DOMAIN t.cols |-> Field(t.cols[j].name, t.cols[j].type)],
   rows |-> t.rows]

ComparisonResult(status, details, report_path) ==
  [status |-> status, details |-> details, report_path |-> report_path]

NoResult == ComparisonResult("", "", "None")

Init ==
  /\ \E b \in GenRowSeqs : \E i \in Inputs(b) :
       /\ file_before = i.file_before
       /\ file_after = i.file_after
       /\ rules = i.rules
       /\ config = i.config
       /\ skip_checksum = i.skip_checksum
  /\ DriverIdle
  /\ pc = "start"
  /\ summary = NoSummary
  /\ schema_diff = SchemaDiff(TRUE, << >>, << >>, << >>)
  /\ df_before = EmptyFrame
  /\ df_after = EmptyFrame
  /\ common_cols = << >>
  /\ sort_keys = << >>
  /\ hash_before = NoChecksum
  /\ hash_after = NoChecksum
  /\ checksum_status = "None"
  /\ comparison_results = ComparisonData(EmptyFrame, EmptyFrame, << >>, TRUE)
  /\ result = NoResult
  /\ stages = << >>

\* Step 1: _check_schemas, outside any try: pq.read_schema raises on a file
\* that is no parquet file, and the exception leaves run.
CheckSchemas ==
  /\ pc = "start"
  /\ stages' = Append(stages, "schema")
  /\ IF file_before.schema_ok /\ file_after.schema_ok
     THEN /\ schema_diff' = _check_schemas(file_before.table.cols,
                                           file_after.table.cols)
          /\ pc' = "schema_checked"
     ELSE /\ pc' = "raised"
          /\ UNCHANGED schema_diff
  /\ UNCHANGED << driver, inputs, summary, df_before, df_after, common_cols, sort_keys,
                  hash_before, hash_after, checksum_status,
                  comparison_results, result >>

\* ReadParquet with the except clause recording the error without returning.
ReadParquet_no_return ==
  /\ pc = "schema_checked"
  /\ stages' = Append(stages, "load")
  /\ IF file_before.data_ok /\ file_after.data_ok
     THEN /\ df_before' = read_parquet(file_before.table)
          /\ df_after' = read_parquet(file_after.table)
          /\ UNCHANGED result
     ELSE /\ result' = ComparisonResult(
                          "READ_ERROR",
                          IF file_before.data_ok THEN file_after.error
                          ELSE file_before.error,
                          "None")
          /\ df_before' = [file_before.table EXCEPT !.rows = << >>]
          /\ df_after' = [file_after.table EXCEPT !.rows = << >>]
  /\ pc' = "loaded"
  /\ UNCHANGED << driver, inputs, summary, schema_diff, common_cols, sort_keys, hash_before,
                  hash_after, checksum_status, comparison_results >>

\* pl.read_parquet of both files; any exception ends the run with READ_ERROR.
ReadParquet ==
  /\ pc = "schema_checked"
  /\ stages' = Append(stages, "load")
  /\ IF file_before.data_ok /\ file_after.data_ok
     THEN /\ df_before' = read_parquet(file_before.table)
          /\ df_after' = read_parquet(file_after.table)
          /\ pc' = "loaded"
          /\ UNCHANGED result
     ELSE /\ result' = ComparisonResult(
                          "READ_ERROR",
                          IF file_before.data_ok THEN file_after.error
                          ELSE file_before.error,
                          "None")
          /\ pc' = "done"
          /\ UNCHANGED << df_before, df_after >>
  /\ UNCHANGED << driver, inputs, summary, schema_diff, common_cols, sort_keys, hash_before,
                  hash_after, checksum_status, comparison_results >>

\* The orders in which the set of names can be iterated.
ListsOfSet(S) ==
  { q \in [1 .. Cardinality(S) -> S] : \A i, j \in DOMAIN q : i # j => q[i] # q[j] }

apply_ignore_rules(df, ignore_columns) ==
  IF ignore_columns # {} THEN drop(df, ignore_columns) ELSE df

\* Steps 2 and 3: the ignore rules, the projection of both frames on the
\* common columns (in the iteration order of their set), the key inference
\* on the before frame.
ProjectAndInfer ==
  /\ pc = "loaded"
  /\ stages' = stages \o << "ignore", "project", "infer" >>
  /\ LET df_before_raw == apply_ignore_rules(df_before, rules.ignore_columns)
         df_after_raw == apply_ignore_rules(df_after, rules.ignore_columns)
     IN  \E cc \in ListsOfSet(SeqToSet(columns(df_before_raw))
                              \cap SeqToSet(columns(df_after_raw))) :
           /\ common_cols' = cc
           /\ df_before' = select(df_before_raw, cc)
           /\ df_after' = select(df_after_raw, cc)
           /\ sort_keys' = infer_sort_keys(select(df_before_raw, cc),
                                           config.key_uniqueness_threshold)
  /\ pc' = "keys_inferred"
  /\ UNCHANGED << driver, inputs, summary, schema_diff, hash_before, hash_after,
                  checksum_status, comparison_results, result >>

\* The guard of the checksum without its test of the key.
checksum_enabled_without_key == ~skip_checksum

checksum_enabled == ~skip_checksum /\ sort_keys # << >>

\* Step 4: the checksum of both frames, when it is not skipped and a key was
\* found.
Checksum ==
  /\ pc = "keys_inferred"
  /\ IF checksum_enabled
     THEN LET hb == generate_checksum(df_before, sort_keys)
              ha == generate_checksum(df_after, sort_keys)
          IN  /\ hash_before' = hb
              /\ hash_after' = ha
              /\ stages' = Append(stages, "checksum")
              /\ IF hb.ok /\ ha.ok /\ hb = ha
                 THEN IF schema_diff.is_identical
                      THEN /\ result' = ComparisonResult(
                                          "IDENTICAL (CHECKSUM_MATCH)", "", "None")
                           /\ pc' = "done"
                           /\ UNCHANGED checksum_status
                      ELSE /\ checksum_status' = "CHECKSUM_MATCH_BUT_SCHEMA_DIFFERS"
                           /\ pc' = "checksummed"
                           /\ UNCHANGED result
                 ELSE /\ checksum_status' = "CHECKSUM_MISMATCH"
                      /\ pc' = "checksummed"
                      /\ UNCHANGED result
     ELSE /\ pc' = "checksummed"
          /\ UNCHANGED << hash_before, hash_after, checksum_status, result,
                          stages >>
  /\ UNCHANGED << driver, inputs, summary, schema_diff, df_before, df_after, common_cols,
                  sort_keys, comparison_results >>

\* The branch of a checksum match under a schema difference: no diff is run.
CompareSchemaOnly ==
  /\ pc = "checksummed"
  /\ checksum_status = "CHECKSUM_MATCH_BUT_SCHEMA_DIFFERS"
  /\ comparison_results' = ComparisonData(EmptyFrame, EmptyFrame, << >>, TRUE)
  /\ result' = [result EXCEPT !.status = "DIFFERENCES_FOUND"]
  /\ pc' = "compared"
  /\ UNCHANGED << driver, inputs, summary, schema_diff, df_before, df_after, common_cols,
                  sort_keys, hash_before, hash_after, checksum_status, stages >>

fuzzy_status(results, diff) ==
  IF results.is_identical /\ diff.is_identical
  THEN "FUZZY_IDENTICAL" ELSE "DIFFERENCES_FOUND"

\* The branch without a key: the fuzzy comparator.
CompareFuzzy ==
  /\ pc = "checksummed"
  /\ checksum_status # "CHECKSUM_MATCH_BUT_SCHEMA_DIFFERS"
  /\ sort_keys = << >>
  /\ LET pd_results == fuzzy_compare_dataframes(df_before, df_after,
                                                config.fuzzy_match_threshold)
     IN  /\ comparison_results' = pd_results
         /\ result' = [result EXCEPT
                         !.status = fuzzy_status(pd_results, schema_diff)]
  /\ stages' = Append(stages, "fuzzy")
  /\ pc' = "compared"
  /\ UNCHANGED << driver, inputs, summary, schema_diff, df_before, df_after, common_cols,
                  sort_keys, hash_before, hash_after, checksum_status >>

\* precise_status with the suffix attached whatever the checksum did.
precise_status_always_tolerance(results, diff, cs) ==
  IF results.is_identical /\ diff.is_identical
  THEN "IDENTICAL (TOLERANCE_MATCH)"
  ELSE "DIFFERENCES_FOUND"

precise_status(results, diff, cs) ==
  IF results.is_identical /\ diff.is_identical
  THEN IF cs = "CHECKSUM_MISMATCH"
       THEN "IDENTICAL (TOLERANCE_MATCH)" ELSE "IDENTICAL"
  ELSE "DIFFERENCES_FOUND"

\* The branch with a key: the precise comparator.
ComparePrecise ==
  /\ pc = "checksummed"
  /\ checksum_status # "CHECKSUM_MATCH_BUT_SCHEMA_DIFFERS"
  /\ sort_keys # << >>
  /\ LET res == compare_dataframes_pl(df_before, df_after, sort_keys,
                                      rules.float_tolerance, schema_diff,
                                      common_cols)
     IN  /\ comparison_results' = res
         /\ result' = [result EXCEPT
                         !.status = precise_status(res, schema_diff,
                                                   checksum_status)]
  /\ stages' = Append(stages, "precise")
  /\ pc' = "compared"
  /\ UNCHANGED << driver, inputs, summary, schema_diff, df_before, df_after, common_cols,
                  sort_keys, hash_before, hash_after, checksum_status >>

\* ReportGenerator(...).generate_html_report(), and the return.
Report ==
  /\ pc = "compared"
  /\ summary' = _create_summary(comparison_results, schema_diff,
                                IF sort_keys = << >> THEN << "(Fuzzy Match)" >>
                                ELSE sort_keys)
  /\ result' = [result EXCEPT !.report_path = "report.html"]
  /\ stages' = Append(stages, "report")
  /\ pc' = "done"
  /\ UNCHANGED << driver, inputs, schema_diff, df_before, df_after, common_cols,
                  sort_keys, hash_before, hash_after, checksum_status,
                  comparison_results >>

\* Steps 3 to 5 of run as a function of the two projected frames: the key,
\* the checksum outcome, the diff and the status.  A run that returns on a
\* checksum match computes no diff.
compare_frames(dfb, dfa, rl, cf, skip, diff, cc) ==
  LET keys == infer_sort_keys(dfb, cf.key_uniqueness_threshold)
      ran == ~skip /\ keys # << >>
      hb == generate_checksum(dfb, keys)
      ha == generate_checksum(dfa, keys)
      match == ran /\ hb.ok /\ ha.ok /\ hb = ha
      cs == IF ~ran THEN "None"
            ELSE IF ~match THEN "CHECKSUM_MISMATCH"
            ELSE "CHECKSUM_MATCH_BUT_SCHEMA_DIFFERS"
      none == ComparisonData(EmptyFrame, EmptyFrame, << >>, TRUE)
      fz == fuzzy_compare_dataframes(dfb, dfa, cf.fuzzy_match_threshold)
      pr == compare_dataframes_pl(dfb, dfa, keys, rl.float_tolerance, diff, cc)
  IN  IF match /\ diff.is_identical
      THEN [status |-> "IDENTICAL (CHECKSUM_MATCH)", sort_keys |-> keys,
            checksum_ran |-> ran, comparison_results |-> none]
      ELSE IF match
      THEN [status |-> "DIFFERENCES_FOUND", sort_keys |-> keys,
            checksum_ran |-> ran, comparison_results |-> none]
      ELSE IF keys = << >>
      THEN [status |-> fuzzy_status(fz, diff), sort_keys |-> keys,
            checksum_ran |-> ran, comparison_results |-> fz]
      ELSE [status |-> precise_status(pr, diff, cs), sort_keys |-> keys,
            checksum_ran |-> ran, comparison_results |-> pr]

\* run on two readable tables, the common columns taken in the order cc.
run_tables(tb, ta, rl, cf, skip, cc) ==
  compare_frames(select(apply_ignore_rules(read_parquet(tb),
                                           rl.ignore_columns), cc),
                 select(apply_ignore_rules(read_parquet(ta),
                                           rl.ignore_columns), cc),
                 rl, cf, skip, _check_schemas(tb.cols, ta.cols), cc)

Next ==
  \/ CheckSchemas
  \/ ReadParquet
  \/ ProjectAndInfer
  \/ Checksum
  \/ CompareSchemaOnly
  \/ CompareFuzzy
  \/ ComparePrecise
  \/ Report

Spec == Init /\ [][Next]_vars

(***************************************************************************)
(* The result log (ComparisonTracker) and the driver (run_comparator.main). *)
(***************************************************************************)
\* The statuses that mean "this pair is identical and can be skipped".
IDENTICAL_STATUSES ==
  { "IDENTICAL (CHECKSUM_MATCH)", "IDENTICAL (TOLERANCE_MATCH)", "IDENTICAL",
    "FUZZY_IDENTICAL" }

\* The statuses of the results that run returns.
RunStatuses ==
  IDENTICAL_STATUSES \cup { "DIFFERENCES_FOUND", "READ_ERROR" }

\* The outcome of a run that returns no result: an exception leaves it.
Raised == "raised"

\* The report of a result: run returns none on READ_ERROR and on a checksum
\* match.
report_path_of(status) ==
  IF status \in { "READ_ERROR", "IDENTICAL (CHECKSUM_MATCH)" } THEN "None"
  ELSE "report.html"

LogRow(fb, fa, status, report_path) ==
  [file_before |-> fb, file_after |-> fa, status |-> status,
   report_path |-> report_path]

RowsOf(rows, fb, fa) ==
  { r \in rows : r.file_before = fb /\ r.file_after = fa }

\* A plain INSERT: the rows the pair has stay.
log_comparison_insert(rows, fb, fa, status, report_path) ==
  rows \cup { LogRow(fb, fa, status, report_path) }

\* INSERT OR REPLACE under UNIQUE(file_before, file_after): the rows in
\* conflict with the new one are deleted.
log_comparison(rows, fb, fa, status, report_path) ==
  (rows \ RowsOf(rows, fb, fa)) \cup { LogRow(fb, fa, status, report_path) }

\* SELECT status ... fetchone(): the status of a row of the pair, or None.
get_last_status(rows, fb, fa) ==
  IF RowsOf(rows, fb, fa) = {} THEN "None"
  ELSE (CHOOSE r \in RowsOf(rows, fb, fa) : TRUE).status

\* The number of driver runs of a behaviour.
MaxRuns == 2

pipeline ==
  << file_before, file_after, rules, config, skip_checksum, pc, schema_diff,
     df_before, df_after, common_cols, sort_keys, hash_before, hash_after,
     checksum_status, comparison_results, result, summary, stages >>

\* main up to the pool: the pairs found, the pre-flight check of the log
\* (or --force), the queue.
StartRun ==
  /\ main_pc = "idle"
  /\ runs < MaxRuns
  /\ \E f \in BOOLEAN : \E found \in SUBSET Pairs :
       LET todo == IF f THEN found
                   ELSE { p \in found :
                            get_last_status(comparison_log, p[1], p[2])
                              \notin IDENTICAL_STATUSES }
       IN  /\ force' = f
           /\ all_pairs' = found
           /\ tasks_to_run' = todo
           /\ task' = [p \in Pairs |-> IF p \in todo THEN "queued" ELSE "none"]
           /\ main_pc' = IF todo = {} THEN "idle" ELSE "pool"
  /\ outcome' = [p \in Pairs |-> "None"]
  /\ runs' = runs + 1
  /\ UNCHANGED << pipeline, comparison_log >>

\* worker in a process of the pool: the run of one queued pair returns a
\* result or raises; either goes to the result queue of the pool.
Worker(p) ==
  /\ main_pc = "pool"
  /\ task[p] = "queued"
  /\ \E o \in RunStatuses \cup { Raised } :
       outcome' = [outcome EXCEPT ![p] = o]
  /\ task' = [task EXCEPT ![p] = "returned"]
  /\ UNCHANGED << pipeline, comparison_log, force, all_pairs, tasks_to_run,
                  main_pc, runs >>

\* The body of the loop over imap_unordered in the main task: the result of
\* a pair is logged.
LogComparison(p) ==
  /\ main_pc = "pool"
  /\ task[p] = "returned"
  /\ outcome[p] # Raised
  /\ comparison_log' = log_comparison(comparison_log, p[1], p[2], outcome[p],
                                      report_path_of(outcome[p]))
  /\ task' = [task EXCEPT ![p] = "logged"]
  /\ main_pc' = IF \A q \in tasks_to_run \ {p} : task[q] = "logged"
                THEN "idle" ELSE "pool"
  /\ UNCHANGED << pipeline, force, all_pairs, tasks_to_run, outcome, runs >>

\* The iterator of imap_unordered raises the exception of a worker in the
\* main task: the loop is left, the pool is terminated on leaving the with
\* block, main ends.
PoolRaises(p) ==
  /\ main_pc = "pool"
  /\ task[p] = "returned"
  /\ outcome[p] = Raised
  /\ task' = [q \in Pairs |->
                IF q = p THEN "raised"
                ELSE IF task[q] \in { "queued", "returned" } THEN "terminated"
                ELSE task[q]]
  /\ main_pc' = "idle"
  /\ UNCHANGED << pipeline, comparison_log, force, all_pairs, tasks_to_run,
                  outcome, runs >>

\* The driver on its own: the runs of the pairs are given by their outcomes.
DriverInit ==
  /\ DriverIdle
  /\ file_before = File(Case01Before)
  /\ file_after = File(Case01Before)
  /\ rules = DefaultRules
  /\ config = Config(Ratio(99, 100), 800)
  /\ skip_checksum = FALSE
  /\ pc = "start"
  /\ summary = NoSummary
  /\ schema_diff = SchemaDiff(TRUE, << >>, << >>, << >>)
  /\ df_before = EmptyFrame
  /\ df_after = EmptyFrame
  /\ common_cols = << >>
  /\ sort_keys = << >>
  /\ hash_before = NoChecksum
  /\ hash_after = NoChecksum
  /\ checksum_status = "None"
  /\ comparison_results = ComparisonData(EmptyFrame, EmptyFrame, << >>, TRUE)
  /\ result = NoResult
  /\ stages = << >>

DriverNext ==
  \/ StartRun
  \/ \E p \in Pairs : Worker(p)
  \/ \E p \in Pairs : LogComparison(p)
  \/ \E p \in Pairs : PoolRaises(p)

DriverSpec == DriverInit /\ [][DriverNext]_vars

\* The pool runs every queued task, every run ends, and the main task takes
\* every result off the queue of the pool.
DriverFairSpec ==
  /\ DriverSpec
  /\ \A p \in Pairs :
       /\ WF_vars(Worker(p))
       /\ WF_vars(LogComparison(p))
       /\ WF_vars(PoolRaises(p))

Readable == file_before.data_ok /\ file_after.data_ok

Done == pc = "done" /\ Readable

ran(stage) == \E k \in DOMAIN stages : stages[k] = stage

DiffEmpty(r) ==
  height(r.added) = 0 /\ height(r.deleted) = 0 /\ Len(r.modified) = 0

\* The reorderings of a list of rows.
Reorderings(rows) ==
  { [k \in DOMAIN rows |-> rows[q[k]]] : q \in ListsOfSet(DOMAIN rows) }

(***************************************************************************)
(* C1.  Reflexivity: a run on the pair (F, F) of a readable file with     *)
(* skip_checksum = false ends with IDENTICAL (CHECKSUM_MATCH) when a key   *)
(* is inferred on F and with FUZZY_IDENTICAL when none is, whatever F      *)
(* holds (null cells, duplicate rows, no rows).                            *)
(***************************************************************************)
C1_Reflexivity ==
  Done /\ file_before = file_after /\ ~skip_checksum =>
    result.status = IF sort_keys # << >> THEN "IDENTICAL (CHECKSUM_MATCH)"
                    ELSE "FUZZY_IDENTICAL"

(***************************************************************************)
(* C2.  Permutation invariance on the precise path: when a key is inferred *)
(* on the before table, a run with the rows of the after table in any      *)
(* other order ends with the same status, and the checksum of the after    *)
(* table is the same for every order of its rows.                          *)
(***************************************************************************)
C2_PermutationInvariance ==
  Done /\ sort_keys # << >> =>
    \A rows \in Reorderings(file_after.table.rows) :
      /\ run_tables(file_before.table, [file_after.table EXCEPT !.rows = rows],
                    rules, config, skip_checksum, common_cols).status
           = result.status
      /\ generate_checksum(select([file_after.table EXCEPT !.rows = rows],
                                  common_cols), sort_keys)
           = generate_checksum(df_after, sort_keys)

(***************************************************************************)
(* C3.  Checksum / precise agreement: for two tables of identical schemas  *)
(* with a key inferred and float_tolerance = 0, the two checksums are      *)
(* equal exactly when the precise comparator returns no added, no deleted  *)
(* and no modified row.                                                    *)
(***************************************************************************)
C3_ChecksumAgreesWithPrecise ==
  /\ pc = "keys_inferred"
  /\ schema_diff.is_identical
  /\ sort_keys # << >>
  /\ rules.float_tolerance = 0
  => (generate_checksum(df_before, sort_keys)
        = generate_checksum(df_after, sort_keys))
     <=> DiffEmpty(compare_dataframes_pl(df_before, df_after, sort_keys,
                                         rules.float_tolerance, schema_diff,
                                         common_cols))

NewColumn ==
  /\ "new_col" \in SchemaNames(file_after.table.cols)
  /\ "new_col" \notin SchemaNames(file_before.table.cols)

Diffs(r) == << r.added, r.deleted, r.modified >>

(***************************************************************************)
(* C4.  Common-column projection: with one new column in the after table   *)
(* alone the run ends with DIFFERENCES_FOUND, the column is recorded in    *)
(* schema_diff.added_columns, and added, deleted and modified are those of *)
(* the run on the same two tables without the new column.                  *)
(***************************************************************************)
C4_CommonColumnProjection ==
  Done /\ NewColumn =>
    /\ result.status = "DIFFERENCES_FOUND"
    /\ "new_col" \in DOMAIN schema_diff.added_columns
    /\ Diffs(comparison_results)
         = Diffs(run_tables(file_before.table,
                            drop(file_after.table, {"new_col"}), rules,
                            config, skip_checksum,
                            common_cols).comparison_results)

Witness_C4 ==
  Done /\ NewColumn /\ ran("precise") /\ ~DiffEmpty(comparison_results)

(***************************************************************************)
(* C5.  When no key is inferred and the fuzzy diff has an addition, a      *)
(* deletion or a modification, the run ends with FUZZY_DIFFERENCES_FOUND.  *)
(***************************************************************************)
C5_FuzzyDifferencesStatus ==
  Done /\ sort_keys = << >> /\ ran("fuzzy") /\ ~DiffEmpty(comparison_results)
    => result.status = "FUZZY_DIFFERENCES_FOUND"

(***************************************************************************)
(* C6.  The evil twin test case: no key is inferred, the fuzzy path is     *)
(* taken, and the run ends with FUZZY_DIFFERENCES_FOUND and exactly one    *)
(* modification, on column status, whose key starts with                   *)
(* "Fuzzy Match (Score: ".                                                 *)
(***************************************************************************)
C6_EvilTwin ==
  Done /\ file_before.table = Case12Before /\ file_after.table = Case12After
    => /\ sort_keys = << >>
       /\ ran("fuzzy")
       /\ result.status = "FUZZY_DIFFERENCES_FOUND"
       /\ Len(comparison_results.modified) = 1
       /\ comparison_results.modified[1].column = "status"
       /\ comparison_results.modified[1].key.kind = "Fuzzy Match (Score: "

AfterChecksum == pc \in { "checksummed", "compared", "done" } /\ Readable

(***************************************************************************)
(* C7, as stated.  The checksum stage runs exactly when skip_checksum is   *)
(* false, the schemas are identical and a key is inferred; when the        *)
(* schemas differ or no key was found no checksum is computed and the      *)
(* status is the one of the run that skips the checksum.                   *)
(***************************************************************************)
C7_ChecksumGuard_AsStated ==
  /\ AfterChecksum =>
       (ran("checksum") <=>
          ~skip_checksum /\ schema_diff.is_identical /\ sort_keys # << >>)
  /\ Done /\ (~schema_diff.is_identical \/ sort_keys = << >>) =>
       /\ ~ran("checksum") /\ ~hash_before.ok /\ ~hash_after.ok
       /\ result.status
            = run_tables(file_before.table, file_after.table, rules, config,
                         TRUE, common_cols).status

(***************************************************************************)
(* C7, amended.  The checksum stage runs exactly when skip_checksum is     *)
(* false and a key is inferred, whether or not the schemas are identical;  *)
(* when no key was found no checksum is computed; when the schemas differ  *)
(* or no key was found the status is the one of the run that skips the     *)
(* checksum.                                                               *)
(***************************************************************************)
C7_ChecksumGuard ==
  /\ AfterChecksum =>
       /\ ran("checksum") <=> (~skip_checksum /\ sort_keys # << >>)
       /\ ran("checksum") <=> (hash_before.ok \/ hash_after.ok)
  /\ Done /\ (~schema_diff.is_identical \/ sort_keys = << >>) =>
       result.status
         = run_tables(file_before.table, file_after.table, rules, config,
                      TRUE, common_cols).status

Witness_C7 ==
  Done /\ ran("checksum") /\ ~schema_diff.is_identical
  /\ checksum_status = "CHECKSUM_MATCH_BUT_SCHEMA_DIFFERS"

(***************************************************************************)
(* C8.  IDENTICAL (TOLERANCE_MATCH) is the status only of runs in which    *)
(* the checksum stage ran, the two checksums differed and the precise diff *)
(* is empty with identical schemas; a run that skipped the checksum and    *)
(* whose precise diff is empty with identical schemas ends with IDENTICAL. *)
(***************************************************************************)
C8_ToleranceMatch ==
  Done =>
    /\ result.status = "IDENTICAL (TOLERANCE_MATCH)" =>
         /\ ran("checksum") /\ hash_before # hash_after
         /\ ran("precise") /\ DiffEmpty(comparison_results)
         /\ schema_diff.is_identical
    /\ ( /\ ~ran("checksum") /\ ran("precise")
         /\ DiffEmpty(comparison_results) /\ schema_diff.is_identical )
         => result.status = "IDENTICAL"

Witness_C8 ==
  Done /\ result.status = "IDENTICAL (TOLERANCE_MATCH)"
  /\ file_before.table # file_after.table

(***************************************************************************)
(* C9.  No exception leaves run: whatever the two files, the rules, the    *)
(* config and skip_checksum, a failure of a stage becomes a result.        *)
(***************************************************************************)
C9_NoExceptionEscapes == pc # "raised"

(***************************************************************************)
(* C10.  When loading either table fails the run ends there with status    *)
(* READ_ERROR, the message of the error as details and no report_path: no  *)
(* key inference, checksum, diff or report follows.                        *)
(***************************************************************************)
C10_ReadError ==
  ran("load") /\ ~Readable =>
    /\ pc = "done"
    /\ result = ComparisonResult("READ_ERROR",
                                 IF file_before.data_ok THEN file_after.error
                                 ELSE file_before.error,
                                 "None")
    /\ stages = << "schema", "load" >>

Witness_C10 ==
  ran("load") /\ file_before.data_ok /\ ~file_after.data_ok /\ pc = "done"

(***************************************************************************)
(* C11.  Every SchemaDiff of the schema differ has is_identical true       *)
(* exactly when added_columns, removed_columns and type_changes are all    *)
(* empty, also for two schemas of the same named, typed columns in a       *)
(* different column order.                                                 *)
(***************************************************************************)
C11_SchemaDiffInvariant ==
  ran("schema") /\ pc # "raised" =>
    (schema_diff.is_identical <=>
       /\ DOMAIN schema_diff.added_columns = {}
       /\ DOMAIN schema_diff.removed_columns = {}
       /\ DOMAIN schema_diff.type_changes = {})

(***************************************************************************)
(* C12.  Every ComparisonData returned by the precise or the fuzzy         *)
(* comparator has is_identical true exactly when its added, deleted and    *)
(* modified tables are all empty, whatever SchemaDiff was passed in.       *)
(***************************************************************************)
C12_ComparisonDataIdentity ==
  (ran("precise") \/ ran("fuzzy")) =>
    (comparison_results.is_identical <=> DiffEmpty(comparison_results))

\* The first column of df, in schema order, that is in the set S: a list of
\* that one column, or the empty list when S holds no column of df.
FirstColumnIn(df, S) ==
  IF \E i \in DOMAIN df.cols : df.cols[i].name \in S
  THEN << df.cols[CHOOSE i \in DOMAIN df.cols :
                    /\ df.cols[i].name \in S
                    /\ \A j \in 1..(i - 1) : df.cols[j].name \notin S].name >>
  ELSE << >>

\* The four-step policy, given the set of perfectly unique columns and the
\* set of columns whose uniqueness ratio reaches the threshold.
KeyPolicy(df, perfect, enough) ==
  LET non_numeric == { c \in perfect : ~is_numeric_dtype(dtype(df, c)) }
  IN  IF height(df) = 0 THEN << >>
      ELSE IF non_numeric # {} THEN FirstColumnIn(df, non_numeric)
      ELSE IF perfect # {} THEN FirstColumnIn(df, perfect)
      ELSE FirstColumnIn(df, enough)

\* The columns whose number of distinct non-missing values, over the number
\* of rows, is at least t.
RatioAtLeast(df, t) ==
  { c \in SeqToSet(columns(df)) :
      nunique(Series(df, c)) * t.den >= t.num * height(df) }

(***************************************************************************)
(* C13 as stated.  Key inference follows the four-step policy, a column    *)
(* being perfectly unique when n_unique = n_rows, with n_unique the number *)
(* of distinct non-missing values of the ratio of step 3.                  *)
(***************************************************************************)
C13_KeyPolicy_AsStated ==
  ran("infer") =>
    sort_keys = KeyPolicy(df_before,
                          { c \in SeqToSet(columns(df_before)) :
                              nunique(Series(df_before, c)) = height(df_before) },
                          RatioAtLeast(df_before, config.key_uniqueness_threshold))

(***************************************************************************)
(* C13.  Key inference policy: for a non-empty table and threshold t the   *)
(* key is (1) the first column in schema order that is non-numeric and     *)
(* perfectly unique, (2) otherwise the first perfectly unique column,      *)
(* (3) otherwise the first column with n_unique / n_rows >= t, (4)         *)
(* otherwise empty; the result has 0 or 1 element and an empty table gives *)
(* the empty list.  Perfectly unique: no value, a missing value included,  *)
(* occurs in two rows; n_unique counts the distinct non-missing values.    *)
(***************************************************************************)
C13_KeyPolicy ==
  ran("infer") =>
    /\ sort_keys = KeyPolicy(df_before,
                             { c \in SeqToSet(columns(df_before)) :
                                 \A i, j \in DOMAIN df_before.rows :
                                   i # j => Series(df_before, c)[i]
                                              # Series(df_before, c)[j] },
                             RatioAtLeast(df_before, config.key_uniqueness_threshold))
    /\ Len(sort_keys) <= 1
    /\ height(df_before) = 0 => sort_keys = << >>

\* A run whose key is a non-numeric perfect column that stands after a
\* numeric perfect column, one of its cells missing.
Witness_C13 ==
  /\ ran("infer") /\ height(df_before) = 2
  /\ columns(df_before) = << "n", "s" >>
  /\ is_unique(Series(df_before, "n"))
  /\ \E i \in DOMAIN df_before.rows : Series(df_before, "s")[i] = Null
  /\ sort_keys = << "s" >>

(***************************************************************************)
(* C14.  Tolerance monotonicity: for the two tables, the key, the          *)
(* SchemaDiff and the tolerance t1 of a run and every tolerance t2 with    *)
(* t1 <= t2, if the precise diff with tolerance t1 is empty then the       *)
(* precise diff with tolerance t2 is empty.                                *)
(***************************************************************************)
C14_ToleranceMonotonicity ==
  ran("precise") /\ DiffEmpty(comparison_results) =>
    \A t2 \in Tolerances \cup Case11Tolerances :
      rules.float_tolerance <= t2
      => DiffEmpty(compare_dataframes_pl(df_before, df_after, sort_keys, t2,
                                         schema_diff, common_cols))

\* Test case 11 under the wide tolerance: the precise diff is empty over two
\* tables that differ, and it is not empty under the strict tolerance.
Witness_C14 ==
  /\ ran("precise") /\ df_before # df_after
  /\ rules.float_tolerance = 100
  /\ DiffEmpty(comparison_results)
  /\ ~DiffEmpty(compare_dataframes_pl(df_before, df_after, sort_keys, 1,
                                      schema_diff, common_cols))

\* The keys of the rows of a table.
RowKeys(df, keys) == { KeyOf(df, df.rows[i], keys) : i \in DOMAIN df.rows }

\* The distinct keys of the modified records (rows_modified counts them).
ModifiedKeys(r) == { r.modified[i].key.of : i \in DOMAIN r.modified }

\* The before rows whose key occurs in both tables.
CommonRows(dfb, dfa, keys) ==
  { i \in DOMAIN dfb.rows :
      KeyOf(dfb, dfb.rows[i], keys) \in RowKeys(dfa, keys) }

(***************************************************************************)
(* C15.  Modified cardinality bound: in every precise diff the number of   *)
(* distinct keys in modified is at most the number of rows whose key       *)
(* occurs in both tables, and no key in modified is the key of a row of    *)
(* added or of deleted.                                                    *)
(***************************************************************************)
C15_ModifiedBound ==
  ran("precise") =>
    /\ Cardinality(ModifiedKeys(comparison_results))
         <= Cardinality(CommonRows(df_before, df_after, sort_keys))
    /\ ModifiedKeys(comparison_results)
         \cap (RowKeys(comparison_results.added, sort_keys)
               \cup RowKeys(comparison_results.deleted, sort_keys)) = {}

\* The matched pairs of the fuzzy diff of the run.
MatchedPairs ==
  fuzzy_matches(df_before, df_after, config.fuzzy_match_threshold).pairs

\* The rows of a table at the positions outside a set, in table order.
RowsOutside(df, S) ==
  LET left == SelectSeq(Indices(df.rows), LAMBDA i : i \notin S)
  IN  [x \in DOMAIN left |-> df.rows[left[x]]]

(***************************************************************************)
(* C16.  Fuzzy match disjointness: in every fuzzy diff no after row that a *)
(* match claimed is in added (added is the after rows no pair claimed), no *)
(* matched before row is in deleted (deleted is the before rows of no      *)
(* pair), and every matched pair has a similarity score of at least        *)
(* fuzzy_match_threshold.                                                  *)
(***************************************************************************)
C16_FuzzyDisjointness ==
  ran("fuzzy") =>
    LET pairs == MatchedPairs
        claimed_after == { pairs[x].best_match_index : x \in DOMAIN pairs }
        matched_before == { pairs[x].index_b : x \in DOMAIN pairs }
        total_weight == SumSeq(_get_column_weights(df_before))
    IN  /\ comparison_results.added.rows = RowsOutside(df_after, claimed_after)
        /\ comparison_results.deleted.rows = RowsOutside(df_before, matched_before)
        /\ \A x \in DOMAIN pairs :
             pairs[x].highest_score
               >= config.fuzzy_match_threshold * total_weight

\* A fuzzy diff with a matched pair that is not an exact match, an added row
\* and a deleted row.
Witness_C16 ==
  /\ ran("fuzzy")
  /\ \E x \in DOMAIN MatchedPairs :
       MatchedPairs[x].highest_score
         < 1000 * SumSeq(_get_column_weights(df_before))
  /\ height(comparison_results.added) > 0
  /\ height(comparison_results.deleted) > 0

\* What a diff holds, whatever the order of its columns: the number of added
\* rows, the number of deleted rows and the set of modified records.
Contents(r) ==
  << height(r.added), height(r.deleted), SeqToSet(r.modified) >>

(***************************************************************************)
(* C17.  Determinism: the run on the same two tables with the same rules,  *)
(* config and skip_checksum returns the same status and the same added,    *)
(* deleted and modified contents for every iteration order of the set of   *)
(* common column names.                                                    *)
(***************************************************************************)
C17_Determinism ==
  Done =>
    \A cc \in ListsOfSet(SeqToSet(common_cols)) :
      LET other == run_tables(file_before.table, file_after.table, rules,
                              config, skip_checksum, cc)
      IN  /\ other.status = result.status
          /\ Contents(other.comparison_results) = Contents(comparison_results)

\* The pairs (before row, after row) of equal key: the rows whose key occurs
\* in both tables.
KeyPairs(dfb, dfa, keys) ==
  { p \in (DOMAIN dfb.rows) \X (DOMAIN dfa.rows) :
      /\ ~HasNull(KeyOf(dfb, dfb.rows[p[1]], keys))
      /\ KeyOf(dfb, dfb.rows[p[1]], keys) = KeyOf(dfa, dfa.rows[p[2]], keys) }

\* The cell of column c of a row as the comparison sees it: stringified
\* when the type of c changed.
CellSeen(df, row, c) ==
  IF c \in DOMAIN schema_diff.type_changes
  THEN CastUtf8(dtype(df, c), row[ColIdx(df, c)])
  ELSE row[ColIdx(df, c)]

\* The stated difference of two cells of column c: two nulls are equal, a
\* null and a value differ, two floats differ beyond the tolerance, any
\* other two values differ when unequal.
CellsDiffer(c, b, a) ==
  IF b = Null \/ a = Null THEN b # a
  ELSE IF dtype(df_before, c) = "double"
          /\ c \notin DOMAIN schema_diff.type_changes
       THEN Abs(b - a) > rules.float_tolerance
       ELSE b # a

(***************************************************************************)
(* C18.  Precise-diff cell semantics: for every row whose key occurs in    *)
(* both tables and every non-key column c, a modified record is emitted    *)
(* for (row, c) exactly when c is floating, not type-changed and           *)
(* |before - after| > tolerance, or c is otherwise and before # after; two *)
(* nulls are equal and a null against a value is different.                *)
(***************************************************************************)
C18_CellSemantics ==
  ran("precise") =>
    \A p \in KeyPairs(df_before, df_after, sort_keys) :
      \A c \in SeqToSet(common_cols) \ SeqToSet(sort_keys) :
        LET b == CellSeen(df_before, df_before.rows[p[1]], c)
            a == CellSeen(df_after, df_after.rows[p[2]], c)
        IN  CellsDiffer(c, b, a)
            <=> ModifiedRow([kind |-> "key",
                             of |-> KeyOf(df_before, df_before.rows[p[1]],
                                          sort_keys)], c, b, a)
                  \in SeqToSet(comparison_results.modified)

\* The key is unique in the table and no row has a missing key.
UniqueKey(df, keys) ==
  /\ \A i \in DOMAIN df.rows : ~HasNull(KeyOf(df, df.rows[i], keys))
  /\ \A i, k \in DOMAIN df.rows :
       i # k => KeyOf(df, df.rows[i], keys) # KeyOf(df, df.rows[k], keys)

\* The rows of df whose key does not occur in other.
RowsWithoutPartner(df, other, keys) ==
  { i \in DOMAIN df.rows :
      KeyOf(df, df.rows[i], keys) \notin RowKeys(other, keys) }

\* A table of the run as the comparison sees it: the columns whose type
\* changed stringified.
Seen(df) == cast_columns(df, DOMAIN schema_diff.type_changes)

\* The columns of the run that are not in the key.
NonKeys == SelectSeq(common_cols, LAMBDA c : c \notin SeqToSet(sort_keys))

(***************************************************************************)
(* C19.  Precise-diff bucketing: with a unique key, added is exactly the   *)
(* after rows whose key does not occur in before (compared on their        *)
(* non-key cells and their number), deleted is exactly the before rows     *)
(* whose key does not occur in after; so a row whose key occurs on both    *)
(* sides is in neither, also when some of its non-key cells are null.      *)
(***************************************************************************)
C19_Bucketing ==
  /\ ran("precise")
  /\ UniqueKey(Seen(df_before), sort_keys)
  /\ UniqueKey(Seen(df_after), sort_keys)
  => LET new == RowsWithoutPartner(Seen(df_after), Seen(df_before), sort_keys)
         gone == RowsWithoutPartner(Seen(df_before), Seen(df_after), sort_keys)
         added == comparison_results.added
         deleted == comparison_results.deleted
     IN  /\ height(added) = Cardinality(new)
         /\ { KeyOf(added, added.rows[x], NonKeys) : x \in DOMAIN added.rows }
              = { KeyOf(Seen(df_after), Seen(df_after).rows[k], NonKeys) :
                    k \in new }
         /\ height(deleted) = Cardinality(gone)
         /\ SeqToSet(deleted.rows) = { Seen(df_before).rows[i] : i \in gone }

\* The candidates of before row b (the after rows of its block, claimed or
\* not) and the score of each.
Candidates(b) ==
  search_df(df_before, df_after, _find_best_blocking_column(df_before), b)

CandidateScores(b) ==
  Scores(df_before, df_after, df_before.rows[b],
         _get_column_weights(df_before), Candidates(b))

\* Before row b scores its maximum on after row a, with the score s, and
\* that score reaches the threshold.
ScoresMaximumOn(b, a, s) ==
  /\ Candidates(b) # << >>
  /\ Candidates(b)[BestMatch(CandidateScores(b))] = a
  /\ CandidateScores(b)[BestMatch(CandidateScores(b))] = s
  /\ s >= config.fuzzy_match_threshold
            * SumSeq(_get_column_weights(df_before))

(***************************************************************************)
(* C20.  Fuzzy matching assigns each after row to at most one before row,  *)
(* and when two before rows both score their maximum on the same after     *)
(* row, the one with the higher score keeps it (ties broken by the lower   *)
(* before id): the other one is not matched to that after row.             *)
(***************************************************************************)
C20_ConflictResolution ==
  ran("fuzzy") =>
    /\ \A x, y \in DOMAIN MatchedPairs :
         x # y => MatchedPairs[x].best_match_index
                    # MatchedPairs[y].best_match_index
    /\ \A x \in DOMAIN MatchedPairs :
         LET b == MatchedPairs[x].index_b
             a == MatchedPairs[x].best_match_index
             s == MatchedPairs[x].highest_score
         IN  ScoresMaximumOn(b, a, s) =>
               \A b2 \in DOMAIN df_before.rows \ {b} :
                 \A s2 \in { CandidateScores(b2)[i] :
                               i \in DOMAIN CandidateScores(b2) } :
                   ScoresMaximumOn(b2, a, s2)
                   => s2 < s \/ (s2 = s /\ b < b2)

\* Two cells of column c are equal under the rule of the scoring: both
\* null, or both values of the same type and equal (the similarity of two
\* strings is 1.0 for equal strings only).
EqualForScore(c, val_b, val_a) ==
  \/ val_b = Null /\ val_a = Null
  \/ /\ val_b # Null /\ val_a # Null
     /\ dtype(df_before, c) = dtype(df_after, c)
     /\ val_b = val_a

\* The records that a matched pair should give: none for a score of 1.0,
\* else one for each column whose two cells are not equal for the score.
RecordsOfPair(p) ==
  LET total_weight == SumSeq(_get_column_weights(df_before))
      row_b == df_before.rows[p.index_b]
      row_a == df_after.rows[p.best_match_index]
      cols == SelectSeq(columns(df_before),
                LAMBDA c : ~EqualForScore(c, row_b[ColIdx(df_before, c)],
                                          row_a[ColIdx(df_after, c)]))
  IN  IF p.highest_score >= 1000 * total_weight THEN << >>
      ELSE [x \in DOMAIN cols |->
              ModifiedRow([kind |-> "Fuzzy Match (Score: ",
                           of |-> << (2 * p.highest_score + total_weight)
                                       \div (2 * total_weight) >>],
                          cols[x], row_b[ColIdx(df_before, cols[x])],
                          row_a[ColIdx(df_after, cols[x])])]

(***************************************************************************)
(* C21.  Fuzzy modified output: modified holds, for each matched pair with *)
(* score S < 1.0, exactly one record for each column on which the values   *)
(* of the pair differ under the equality rule of the scoring (so at least  *)
(* one record for such a pair and none for a pair with S = 1.0), each      *)
(* with the key "Fuzzy Match (Score: X.XXX)".                              *)
(***************************************************************************)
C21_FuzzyModified ==
  ran("fuzzy") =>
    /\ comparison_results.modified
         = Flatten([x \in DOMAIN MatchedPairs |-> RecordsOfPair(MatchedPairs[x])])
    /\ \A x \in DOMAIN MatchedPairs :
         MatchedPairs[x].highest_score
           < 1000 * SumSeq(_get_column_weights(df_before))
         => RecordsOfPair(MatchedPairs[x]) # << >>

(***************************************************************************)
(* C22.  Schema differ: added is the names in after alone, removed the     *)
(* names in before alone, and a name of both schemas is in type_changes    *)
(* if and only if the string forms of its before and after types differ.   *)
(***************************************************************************)
C22_SchemaDiffer ==
  ran("schema") /\ pc # "raised" =>
    LET names_before == SchemaNames(file_before.table.cols)
        names_after == SchemaNames(file_after.table.cols)
    IN  /\ DOMAIN schema_diff.added_columns = names_after \ names_before
        /\ DOMAIN schema_diff.removed_columns = names_before \ names_after
        /\ \A n \in names_before \cap names_after :
             n \in DOMAIN schema_diff.type_changes
             <=> SchemaType(file_before.table.cols, n)
                   # SchemaType(file_after.table.cols, n)

(***************************************************************************)
(* The summary of the report on comparison data of six columns.            *)
(***************************************************************************)
\* The columns of the modified records, in the order of the table.
SummaryColumns == << "status", "reading", "n", "data", "city", "id" >>

\* The keys of the rows in which one column is modified.
SummaryKeyLists == { << >>, << 1 >>, << 2 >>, << 1, 2 >> }

\* The modified records of a choice f of modified rows for each column.
SummaryModified(f) ==
  Flatten([j \in DOMAIN SummaryColumns |->
             [k \in DOMAIN f[j] |->
                ModifiedRow([kind |-> "key", of |-> << f[j][k] >>],
                            SummaryColumns[j], 1, 2)]])

SummaryFrames ==
  { Frame(<< Field("device_id", "int64") >>, << >>),
    Frame(<< Field("device_id", "int64") >>, << << 3 >>, << 4 >> >>) }

\* The state before the report of a precise comparison that found the
\* comparison data drawn here.
SummaryInit ==
  /\ \E f \in [DOMAIN SummaryColumns -> SummaryKeyLists] :
       \E a \in SummaryFrames : \E d \in SummaryFrames :
         comparison_results
           = ComparisonData(a, d, SummaryModified(f),
                            height(a) = 0 /\ height(d) = 0
                              /\ SummaryModified(f) = << >>)
  /\ file_before = File(Case01Before)
  /\ file_after = File(Case01Before)
  /\ rules = DefaultRules
  /\ config = Config(Ratio(99, 100), 800)
  /\ skip_checksum = TRUE
  /\ DriverIdle
  /\ pc = "compared"
  /\ summary = NoSummary
  /\ schema_diff = SchemaDiff(TRUE, << >>, << >>, << >>)
  /\ df_before = EmptyFrame
  /\ df_after = EmptyFrame
  /\ common_cols = << "id" >>
  /\ sort_keys = << "id" >>
  /\ hash_before = NoChecksum
  /\ hash_after = NoChecksum
  /\ checksum_status = "None"
  /\ result = NoResult
  /\ stages = << "schema", "load", "precise" >>

SummaryNext == Report

SummarySpec == SummaryInit /\ [][SummaryNext]_vars

\* C23: in the summary of a report, rows_added and rows_deleted are the
\* numbers of rows of added and deleted, rows_modified is the number of
\* distinct keys among the modified records, and top_modified_fields lists
\* at most 5 columns, the most modified ones, each with its number of
\* modified records, by descending number and, among equal numbers, by
\* ascending column name.
C23_SummaryShaping ==
  ran("report") =>
    LET r == comparison_results
        top == summary.top_modified_fields
        cols == { r.modified[i].column : i \in DOMAIN r.modified }
        count(c) == Cardinality({ i \in DOMAIN r.modified :
                                    r.modified[i].column = c })
        listed == { top[k].column : k \in DOMAIN top }
    IN  /\ summary.rows_added = Len(r.added.rows)
        /\ summary.rows_deleted = Len(r.deleted.rows)
        /\ summary.rows_modified
             = Cardinality({ r.modified[i].key : i \in DOMAIN r.modified })
        /\ Len(top) <= 5
        /\ Len(top) = (IF Cardinality(cols) <= 5 THEN Cardinality(cols) ELSE 5)
        /\ listed \subseteq cols
        /\ Cardinality(listed) = Len(top)
        /\ \A k \in DOMAIN top : top[k].change_count = count(top[k].column)
        /\ \A k \in DOMAIN top : \A l \in DOMAIN top :
             k < l =>
               \/ top[k].change_count > top[l].change_count
               \/ /\ top[k].change_count = top[l].change_count
                  /\ NameRank(top[k].column) < NameRank(top[l].column)
        /\ \A c \in cols \ listed : \A k \in DOMAIN top :
             \/ top[k].change_count > count(c)
             \/ /\ top[k].change_count = count(c)
                /\ NameRank(top[k].column) < NameRank(c)

\* A report on six modified columns, two of the listed ones modified equally
\* often and out of name order in the table, with added rows and fewer keys
\* than modified records.
Witness_C23 ==
  /\ ran("report")
  /\ Cardinality({ comparison_results.modified[i].column :
                     i \in DOMAIN comparison_results.modified }) > 5
  /\ Len(summary.top_modified_fields) = 5
  /\ summary.top_modified_fields[1].change_count = 2
  /\ summary.top_modified_fields[1].column = "reading"
  /\ summary.top_modified_fields[2].change_count = 2
  /\ summary.top_modified_fields[2].column = "status"
  /\ summary.top_modified_fields[5].change_count = 1
  /\ summary.rows_added = 2
  /\ summary.rows_deleted = 0
  /\ summary.rows_modified = 2

\* C25: the columns named in ignore_columns do not influence the verdict: a
\* run under a rule that ignores columns returns the status that the run on
\* the same two tables without the ignored columns returns.
C25_IgnoredColumns ==
  Done /\ rules.ignore_columns # {} =>
    run_tables(drop(file_before.table, rules.ignore_columns),
               drop(file_after.table, rules.ignore_columns),
               rules, config, skip_checksum, common_cols).status
      = result.status

\* C24: every pair queued by the driver eventually has a row in the result
\* log that carries the status of its run, whatever happens to the other
\* queued pairs; and a row of a pair is written only by the step of the main
\* task that takes the returned result of that pair.
C24_EveryQueuedPairLogged ==
  /\ \A p \in Pairs :
       (task[p] = "queued")
         ~> (/\ task[p] = "logged"
             /\ get_last_status(comparison_log, p[1], p[2]) = outcome[p])
  /\ [][\A p \in Pairs :
          RowsOf(comparison_log', p[1], p[2])
            # RowsOf(comparison_log, p[1], p[2])
          => task[p] = "returned" /\ task'[p] = "logged"]_vars

\* C26: across the driver runs the log holds at most one row for a pair; a
\* logged result leaves the row of its pair with its status and the rows of
\* the other pairs as they were, and nothing else changes the log; a run
\* without --force queues exactly the pairs found whose row does not hold
\* one of the four IDENTICAL statuses (so the pairs without a row and the
\* pairs of status DIFFERENCES_FOUND or READ_ERROR), and a run with --force
\* queues every pair found.
C26_LogAndSkipping ==
  /\ [](\A p \in Pairs : Cardinality(RowsOf(comparison_log, p[1], p[2])) <= 1)
  /\ [][\A p \in Pairs :
          IF task[p] = "returned" /\ task'[p] = "logged"
          THEN RowsOf(comparison_log', p[1], p[2])
                 = { [file_before |-> p[1], file_after |-> p[2],
                      status |-> outcome[p],
                      report_path |-> report_path_of(outcome[p])] }
          ELSE RowsOf(comparison_log', p[1], p[2])
                 = RowsOf(comparison_log, p[1], p[2])]_vars
  /\ [][runs' # runs =>
          \A p \in all_pairs' :
            p \in tasks_to_run'
              <=> \/ force'
                  \/ \A r \in RowsOf(comparison_log, p[1], p[2]) :
                       r.status \notin { "IDENTICAL", "FUZZY_IDENTICAL",
                                         "IDENTICAL (CHECKSUM_MATCH)",
                                         "IDENTICAL (TOLERANCE_MATCH)" }]_vars

\* A second run without --force that skips a pair of status FUZZY_IDENTICAL
\* and has logged a new status for the other pair.
Witness_C26 ==
  /\ runs = 2
  /\ ~force
  /\ all_pairs = Pairs
  /\ \E p \in Pairs : \E q \in Pairs :
       /\ p \notin tasks_to_run
       /\ get_last_status(comparison_log, p[1], p[2]) = "FUZZY_IDENTICAL"
       /\ q \in tasks_to_run
       /\ task[q] = "logged"
       /\ get_last_status(comparison_log, q[1], q[2]) = "READ_ERROR"
====
